---- MODULE Spec2Model ----
(***************************************************************************)
(* The per-guild playback queue engine of cogs/music.py: MusicPlayer with  *)
(* its producer operations (add_track, skip_current, clear_queue,          *)
(* set_voice), its consumer coroutine player_loop, and the part of the     *)
(* discord voice client the engine drives (play / stop / pause / resume,   *)
(* the after-callback of an ended player, the connection state).           *)
(*                                                                         *)
(* Everything that runs on the asyncio event loop is cooperative: the code *)
(* between two suspension points of a coroutine is one atomic step.  The   *)
(* consumer suspends at `await self.queue_event.wait()`, at                *)
(* `await asyncio.sleep(1)` and at `await self.next.wait()`; an await of   *)
(* an Event that is already set does not suspend.  The audio player of the *)
(* voice client runs in a thread of its own: it ends at any time and posts *)
(* `self.next.set` to the loop with call_soon_threadsafe.                  *)
(*                                                                         *)
(* Tracks are numbered 1, 2, ... in the order of the add_track calls that  *)
(* enqueue them; 0 stands for None.                                        *)
(*                                                                         *)
(* Around the engine: the cancellation of the loop task, the play request  *)
(* (ensure_voice, create_track, add_track), the registry Music.players     *)
(* with the load / unload / reload of the extension, and the players of    *)
(* several guilds side by side.                                            *)
(***************************************************************************)
EXTENDS Naturals, Sequences, FiniteSets, TLC

\* Number of add_track calls explored (the queue itself is unbounded).
MaxTracks == 3

\* Number of tracks enqueued in a drain run.
MaxDrain == 4

\* Number of guilds, of Music objects constructed (the first load and the
\* later loads and reloads), of MusicPlayer objects constructed and of
\* get_player calls.
MaxGuilds == 2
MaxCogs == 3
MaxPlayers == 4
MaxCalls == 4

\* Number of tracks enqueued in the two sessions that run side by side.
MaxIsoTracks == 2
\* Length of the `entries` list an extract_info result carries.
MaxEntries == 2

Guilds == 1..MaxGuilds

NoTrack == 0
Tracks == 1..MaxTracks

VARIABLES
    pending,       \* MusicPlayer.pending: deque of tracks
    queue_event,   \* MusicPlayer.queue_event (asyncio.Event): the wake signal
    next,          \* MusicPlayer.next (asyncio.Event): the done signal
    current,       \* MusicPlayer.current: the track being played, or NoTrack
    voice,         \* MusicPlayer.voice: TRUE when a voice client is bound
    connected,     \* voice client: is_connected()
    sinkState,     \* voice client's audio player: "idle", "playing", "paused"
    sinkTrack,     \* the track that audio player streams, or NoTrack
    wakeRequests,  \* next.set calls posted by after_play, not yet run by the loop
    pc,            \* where player_loop is suspended
    nextId,        \* the number the next add_track call gives its track
    started,       \* history: the tracks that became `current`, in that order
    skipNext,      \* history: head of `pending` when skip_current last stopped a track
    last,          \* the producer operation that ran last ("other" for every other step)
    ret,           \* the value skip_current returned, when last = "skip"
    events,        \* what the consumer reported in the last step, in order
    assigned,      \* the values the last step assigned to `current`, in order
    played,        \* history: the tracks of the music.track_play reports so far
    req,           \* where the command or button handler in progress is
    call,          \* the last command or button: its name, and whether its member
                   \* is in the music channel and is allowed as DJ
    snap,          \* what the last queue_items and queue_size calls returned
    resolved,      \* the last create_track call: its query, what extract_info
                   \* gave for each search term, and its outcome
    cog,           \* the Music object the bot has loaded (its number), 0 when unloaded
    cogs,          \* number of Music objects constructed so far
    players,       \* Music.players of the loaded cog: guild -> MusicPlayer, 0 for no entry
    instances,     \* every MusicPlayer constructed so far, by number
    returned,      \* history: <<cog, guild, player>> of the get_player calls, in order
    heap,          \* the deque and Event objects constructed for the players below
    sessions,      \* one MusicPlayer per guild: references into heap, own attributes
    issued,        \* number of tracks enqueued in these sessions
    actor          \* the guild whose session made the last step (0: none)

vars == <<pending, queue_event, next, current, voice, connected, sinkState,
          sinkTrack, wakeRequests, pc, nextId, started, skipNext, last, ret,
          events, assigned, played, req, call, snap, resolved, cog, cogs, players, instances, returned,
          heap, sessions, issued, actor>>

\* The engine of one guild and its voice client.
engineVars == <<pending, queue_event, next, current, voice, connected, sinkState,
                sinkTrack, wakeRequests, pc, nextId, started, skipNext, last,
                ret, events, assigned, played>>

\* The variables outside the engine that the command handlers own.
handlerVars == <<req, call, snap>>

\* The registry of the cog.
regVars == <<cog, cogs, players, instances, returned>>

\* The players of two guilds side by side.
isoVars == <<heap, sessions, issued, actor>>

\* The variables of the other parts of the cog.
\* Track resolution (create_track).
ytVars == <<resolved>>

cogVars == <<regVars, isoVars, ytVars>>

\* The state the engine and the voice client hold, as one record.
St ==
    [pending |-> pending, queue_event |-> queue_event, next |-> next,
     current |-> current, voice |-> voice, connected |-> connected,
     sinkState |-> sinkState, sinkTrack |-> sinkTrack,
     wakeRequests |-> wakeRequests, pc |-> pc, started |-> started,
     track |-> NoTrack, ret |-> FALSE, events |-> <<>>, assigned |-> <<>>,
     played |-> played]

\* The step that leaves the program in state s, made by operation op.
Commit(s, op) ==
    /\ pending' = s.pending
    /\ queue_event' = s.queue_event
    /\ next' = s.next
    /\ current' = s.current
    /\ voice' = s.voice
    /\ connected' = s.connected
    /\ sinkState' = s.sinkState
    /\ sinkTrack' = s.sinkTrack
    /\ wakeRequests' = s.wakeRequests
    /\ pc' = s.pc
    /\ started' = s.started
    /\ last' = op
    /\ ret' = s.ret
    /\ events' = s.events
    /\ assigned' = s.assigned
    /\ played' = s.played

-----------------------------------------------------------------------------
(* The voice client (discord.VoiceClient), as the engine uses it.           *)

\* voice.is_playing(): a player exists, is not paused and has not ended.
is_playing(s) == s.sinkState = "playing"

\* voice.is_paused()
is_paused(s) == s.sinkState = "paused"

\* `self.voice and self.voice.is_connected()`
TransportUp(s) == s.voice /\ s.connected

\* voice.stop(): ends the player, if there is one; the player's thread then
\* runs after_play, which posts next.set to the loop.
voice_stop(s) ==
    IF s.sinkState = "idle" THEN s
    ELSE [s EXCEPT !.sinkState = "idle", !.sinkTrack = NoTrack,
                   !.wakeRequests = @ + 1]

\* A voice.pause() that ends the player, as voice.stop() does.
voice_pause_stops(s) ==
    [s EXCEPT !.sinkState = "idle", !.sinkTrack = NoTrack, !.wakeRequests = @ + 1]

\* voice.pause(), called when is_playing(): the player stops reading its
\* source; it does not end and does not run the after-callback.
voice_pause(s) == [s EXCEPT !.sinkState = "paused"]

\* voice.resume(), called when is_paused().
voice_resume(s) == [s EXCEPT !.sinkState = "playing"]

\* The track t is streaming on the voice client (playing or paused).
Streaming(t) == t # NoTrack /\ sinkTrack = t /\ sinkState # "idle"

-----------------------------------------------------------------------------
(* MusicPlayer's producer operations.                                       *)

\* A set_voice that also stops what the client plays.
set_voice_stops(s) == [voice_stop(s) EXCEPT !.voice = TRUE]

set_voice(s) == [s EXCEPT !.voice = TRUE]

\* A skip_current that signals `next` also when nothing is playing.
skip_current_always_signals(s) ==
    IF s.voice /\ is_playing(s)
    THEN [voice_stop(s) EXCEPT !.next = TRUE, !.ret = TRUE]
    ELSE [s EXCEPT !.next = TRUE, !.ret = FALSE]

\* A skip_current that also discards the track that would play next.
skip_current_drops_head(s) ==
    IF s.voice /\ is_playing(s)
    THEN [voice_stop(s) EXCEPT !.next = TRUE, !.ret = TRUE,
                               !.pending = IF @ = <<>> THEN @ ELSE Tail(@)]
    ELSE [s EXCEPT !.ret = FALSE]

skip_current(s) ==
    IF s.voice /\ is_playing(s)
    THEN [voice_stop(s) EXCEPT !.next = TRUE, !.ret = TRUE]
    ELSE [s EXCEPT !.ret = FALSE]

\* An add_track that refuses the track once the loop task is done.
add_track_needs_live_loop(s, t) ==
    IF s.pc \in {"dead", "cancelled"} THEN s
    ELSE [s EXCEPT !.pending = Append(@, t), !.queue_event = TRUE]

\* An add_track that forgets queue_event.set().
add_track_no_event(s, t) == [s EXCEPT !.pending = Append(@, t)]

add_track(s, t) == [s EXCEPT !.pending = Append(@, t), !.queue_event = TRUE]

\* A failed create_track whose handler empties the queue.
resolve_failed_clears(s) == [s EXCEPT !.pending = <<>>]

\* create_track raised in Music.play or process_modal_request: the handler
\* sends the error message and returns before add_track.
resolve_failed(s) == s

\* A clear_queue that also stops the voice client, as the stop command does.
clear_queue_stops(s) == [voice_stop(s) EXCEPT !.pending = <<>>]

\* A clear_queue that removes only the head (popleft for clear).
clear_queue_popleft(s) ==
    [s EXCEPT !.pending = IF @ = <<>> THEN @ ELSE Tail(@)]

clear_queue(s) == [s EXCEPT !.pending = <<>>]

queue_items(s) == s.pending

queue_size(s) == Len(s.pending)

\* A queue_items that hands out the deque itself (return self.pending).
queue_items_alias(s) == [own |-> FALSE, items |-> <<>>]

\* The list object queue_items returns: list(self.pending) is a list of its
\* own that holds the elements the deque has at the call.
queue_items_list(s) == [own |-> TRUE, items |-> queue_items(s)]

-----------------------------------------------------------------------------
(* MusicPlayer.player_loop, the consumer.                                   *)

\* A _wait_for_track that takes the newest track (pop for popleft).
wait_for_track_pop(s) ==
    IF s.pending # <<>>
    THEN [s EXCEPT !.track = s.pending[Len(s.pending)],
                   !.pending = SubSeq(s.pending, 1, Len(s.pending) - 1)]
    ELSE [s EXCEPT !.queue_event = FALSE, !.pc = "wait_track"]

\* A _wait_for_track that pops without testing the deque: popleft on the
\* empty deque raises IndexError, which leaves player_loop.
wait_for_track_unchecked(s) ==
    IF s.pending # <<>>
    THEN [s EXCEPT !.track = Head(s.pending), !.pending = Tail(s.pending)]
    ELSE [s EXCEPT !.pc = "dead"]

\* A _wait_for_track that takes one track per wake signal (wait, clear,
\* popleft) and does not look at the deque before it suspends.
wait_for_track_per_signal(s) ==
    IF s.queue_event /\ s.pending # <<>>
    THEN [s EXCEPT !.track = Head(s.pending), !.pending = Tail(s.pending),
                   !.queue_event = FALSE]
    ELSE [s EXCEPT !.queue_event = FALSE, !.pc = "wait_track"]

\* A _wait_for_track that reads the head and leaves it in the deque
\* (pending[0] for popleft).
wait_for_track_peek(s) ==
    IF s.pending # <<>>
    THEN [s EXCEPT !.track = Head(s.pending)]
    ELSE [s EXCEPT !.queue_event = FALSE, !.pc = "wait_track"]

\* _wait_for_track: pops the head of `pending` into the local `track`, or
\* clears queue_event and suspends on it (track stays NoTrack).
wait_for_track(s) ==
    IF s.pending # <<>>
    THEN [s EXCEPT !.track = Head(s.pending), !.pending = Tail(s.pending)]
    ELSE [s EXCEPT !.queue_event = FALSE, !.pc = "wait_track"]

\* A backoff that puts the track back at the tail (append for appendleft).
hold_track_append(s) ==
    [s EXCEPT !.pending = Append(@, s.track), !.track = NoTrack, !.pc = "backoff"]

\* A backoff that sleeps with the track in its local variable and pushes it
\* back after the sleep (sleep(1) before appendleft).
hold_track_sleeps_first(s) == [s EXCEPT !.track = NoTrack, !.pc = "backoff"]

\* No connected transport: the track goes back to the head, then sleep(1).
hold_track(s) ==
    [s EXCEPT !.pending = <<s.track>> \o @, !.track = NoTrack, !.pc = "backoff"]

\* History: the entry <<name, arg>> is added to what the step reports.
note(s, name, arg) == [s EXCEPT !.events = Append(@, <<name, arg>>)]

\* monitor.record_bot_task(name, duration, metadata); arg is the queue_size
\* or the track of the metadata.
record_bot_task(s, name, arg) ==
    IF name = "music.track_play"
    THEN [note(s, name, arg) EXCEPT !.played = Append(@, arg)]
    ELSE note(s, name, arg)

\* self.current = t
set_current(s, t) == [s EXCEPT !.current = t, !.assigned = Append(@, t)]

\* A connected transport: current = track, build the source, voice.play.
\* ok = FALSE: building the FFmpeg source raises.  voice.play raises
\* ClientException when the voice client is already playing.  Either
\* exception leaves player_loop (only CancelledError is caught).
\* `started` records, for the history, that the track became `current`.
start_track(s, ok) ==
    LET c == [set_current(s, s.track) EXCEPT !.started = Append(@, s.track),
                                             !.track = NoTrack]
    IN  IF ~ok \/ is_playing(c)
        THEN [note(c, "start_failed", s.track) EXCEPT !.pc = "dead"]
        ELSE [c EXCEPT !.sinkTrack = s.track, !.sinkState = "playing",
                       !.pc = "wait_next"]

\* An iteration whose transport test is inverted.
iteration_inverted_test(s, ok) ==
    LET p == wait_for_track(s)
        w == record_bot_task(p, "music.queue_wait", queue_size(p))
    IN  IF p.track = NoTrack THEN p
        ELSE IF TransportUp(w) THEN hold_track(w)
        ELSE start_track(w, ok)

\* An iteration without the transport test.
iteration_no_transport_test(s, ok) ==
    LET p == wait_for_track(s)
        w == record_bot_task(p, "music.queue_wait", queue_size(p))
    IN  IF p.track = NoTrack THEN p ELSE start_track(w, ok)

\* An iteration that sets `current` before it tests the transport.
iteration_sets_current_first(s, ok) ==
    LET p == wait_for_track(s)
        w == record_bot_task(p, "music.queue_wait", queue_size(p))
    IN  IF p.track = NoTrack THEN p
        ELSE IF ~TransportUp(w) THEN hold_track(set_current(w, w.track))
        ELSE start_track(w, ok)

\* From `track = await self._wait_for_track()` to the next suspension.
iteration(s, ok) ==
    LET p == wait_for_track(s)
        w == record_bot_task(p, "music.queue_wait", queue_size(p))
    IN  IF p.track = NoTrack THEN p
        ELSE IF ~TransportUp(w) THEN hold_track(w)
        ELSE start_track(w, ok)

\* The top of `while True`: next.clear(), then the iteration.  An exception
\* that was not caught has left the loop.
loop_top(s, ok) ==
    IF s.pc = "dead" THEN s ELSE iteration([s EXCEPT !.next = FALSE], ok)

\* What source.cleanup() does: returns, or raises because the ffmpeg process
\* and its pipes are already gone.
CleanupOutcomes == {"ok", "ValueError", "OSError"}

\* A completion that catches ValueError only.
finish_track_catches_value_error(s, res) ==
    LET m == record_bot_task(s, "music.track_play", s.current)
    IN  IF res = "ok" THEN set_current(note(m, "cleanup", s.current), NoTrack)
        ELSE IF res = "ValueError"
        THEN set_current(note(m, "cleanup_failed", s.current), NoTrack)
        ELSE [note(m, "cleanup_failed", s.current) EXCEPT !.pc = "dead"]

\* A completion that clears `current` before it reports.
finish_track_clears_first(s, res) ==
    LET c == set_current(s, NoTrack)
        m == record_bot_task(c, "music.track_play", c.current)
    IN  IF res = "ok" THEN note(m, "cleanup", s.current)
        ELSE note(m, "cleanup_failed", s.current)

\* A completion that leaves `current` as it is.
finish_track_keeps_current(s, res) ==
    LET m == record_bot_task(s, "music.track_play", s.current)
    IN  IF res = "ok" THEN note(m, "cleanup", s.current)
        ELSE note(m, "cleanup_failed", s.current)

\* After next.wait() returned: report, source.cleanup() with ValueError and
\* OSError swallowed, current = None.
finish_track(s, res) ==
    LET m == record_bot_task(s, "music.track_play", s.current)
    IN  IF res = "ok" THEN set_current(note(m, "cleanup", s.current), NoTrack)
        ELSE set_current(note(m, "cleanup_failed", s.current), NoTrack)

\* An after_play that calls self.next.set() itself, in the player's thread.
player_end_sets_next(s) ==
    [s EXCEPT !.sinkState = "idle", !.sinkTrack = NoTrack, !.next = TRUE]

\* The audio player's thread finds its source exhausted or cleaned up.
player_end(s) ==
    [s EXCEPT !.sinkState = "idle", !.sinkTrack = NoTrack, !.wakeRequests = @ + 1]

\* queue_event.wait() returned in _wait_for_track: the iteration goes on;
\* with `next` already set, next.wait() returns at once, the track is
\* finished and the loop goes round without suspending.
track_wake(s, ok, ok2, ended, res) ==
    LET r == iteration(s, ok)
        f == finish_track(r, res)
        g == IF ended THEN player_end(f) ELSE f
    IN  IF r.pc = "wait_next" /\ r.next THEN loop_top(g, ok2) ELSE r

\* next.wait() returned: the track is finished and the loop goes round.
track_done(s, ok, res) == loop_top(finish_track(s, res), ok)

\* The consumer can be resumed: it has not run yet, its sleep is over or the
\* Event it waits for is set.
CanResume(s) ==
    \/ s.pc \in {"start", "backoff"}
    \/ s.pc = "wait_track" /\ s.queue_event
    \/ s.pc = "wait_next" /\ s.next

\* The consumer runs from where it is suspended to its next suspension.
resume(s, ok, ok2, ended, res) ==
    IF s.pc \in {"start", "backoff"} THEN loop_top(s, ok)
    ELSE IF s.pc = "wait_track" THEN track_wake(s, ok, ok2, ended, res)
    ELSE track_done(s, ok, res)

\* The consumer's suspension points: queue_event.wait(), sleep(1), next.wait().
Suspensions == {"wait_track", "backoff", "wait_next"}

\* A cancellation that the backoff sleep swallows (the loop goes on).
cancel_kept_in_backoff(s) ==
    IF s.pc = "backoff" THEN s ELSE [s EXCEPT !.pc = "cancelled"]

\* CancelledError is thrown into player_loop at the await it is suspended
\* on; `except asyncio.CancelledError: pass` ends the coroutine normally.
cancel(s) == [s EXCEPT !.pc = "cancelled"]

-----------------------------------------------------------------------------
(* Music.create_track: the query is looked up with yt_dlp's extract_info.   *)

\* The query holds "://", or starts with "ytsearch:", or neither.
QueryKinds == {"locator", "prefixed", "text"}

\* An entry of a result's `entries` list: None or an empty dict, a dict
\* without "url", a dict with "url".
Entries == {"empty", "no_url", "url"}

EntryLists == UNION {[1..k -> Entries] : k \in 0..MaxEntries}

\* What extract_info does for one search term: it raises, it returns None,
\* or it returns a dict (`entries` missing or empty: <<>>; url: the dict
\* itself has a "url").
Results ==
    {[kind |-> k, entries |-> <<>>, url |-> FALSE] : k \in {"raise", "none"}}
    \cup {[kind |-> "dict", entries |-> e, url |-> u] :
             e \in EntryLists, u \in BOOLEAN}

\* search_terms: the query itself, and "ytsearch:<query>" for a query that
\* is neither a locator nor prefixed.
search_terms(kind) ==
    IF kind = "text" THEN <<"query", "ytsearch">> ELSE <<"query">>

\* next((entry for entry in entries if entry), None): the index, 0 for None.
first_entry(entries) ==
    LET I == {i \in DOMAIN entries : entries[i] # "empty"}
    IN  IF I = {} THEN 0 ELSE CHOOSE i \in I : \A j \in I : i <= j

\* Before the loop: nothing tried, attempted_error = None, info = None.
NoInfo == [found |-> FALSE, term |-> 0, entry |-> 0, url |-> FALSE]

NoOutcome ==
    [result |-> "none", error |-> "none", tried |-> <<>>, term |-> 0, entry |-> 0]

\* `for term in search_terms`, from term i on: a raise and a list of empty
\* entries go on to the next term; anything else is taken as info (None
\* when extract_info returned None) and ends the loop.
RECURSIVE lookup(_, _, _, _)
lookup(terms, res, i, st) ==
    IF i > Len(terms) THEN st
    ELSE LET r == res[i]
             t == [st EXCEPT !.tried = Append(@, terms[i])]
         IN  IF r.kind = "raise"
             THEN lookup(terms, res, i + 1, [t EXCEPT !.error = "extract"])
             ELSE IF r.kind = "dict" /\ r.entries # <<>>
             THEN LET fe == first_entry(r.entries)
                  IN  IF fe = 0
                      THEN lookup(terms, res, i + 1,
                                  [t EXCEPT !.error = "no_results"])
                      ELSE [t EXCEPT !.info =
                               [found |-> TRUE, term |-> i, entry |-> fe,
                                url |-> r.entries[fe] = "url"]]
             ELSE [t EXCEPT !.info =
                      [found |-> r.kind = "dict", term |-> i, entry |-> 0,
                       url |-> r.kind = "dict" /\ r.url]]

\* create_track for a query of the given kind, res[i] being what
\* extract_info does for the i-th search term: a Track built from info, or
\* the error raised (the one of the last failed lookup, "no results" when
\* there is none, "no stream" for an info without "url").
create_track(kind, res) ==
    LET l == lookup(search_terms(kind), res, 1,
                    [tried |-> <<>>, error |-> "none", info |-> NoInfo])
    IN  IF ~l.info.found
        THEN [result |-> "error",
              error |-> IF l.error # "none" THEN l.error ELSE "no_results",
              tried |-> l.tried, term |-> 0, entry |-> 0]
        ELSE IF ~l.info.url
        THEN [result |-> "error", error |-> "no_stream", tried |-> l.tried,
              term |-> l.info.term, entry |-> l.info.entry]
        ELSE [result |-> "track", error |-> "none", tried |-> l.tried,
              term |-> l.info.term, entry |-> l.info.entry]

-----------------------------------------------------------------------------
(* The cog: Music, its registry of players, and the extension management.   *)

\* Music.__init__: self.players = {}
Music_init == [g \in Guilds |-> 0]

\* MusicPlayer.__init__ for guild g: the one place that creates the loop
\* task (tasks counts the create_task calls made for the object).
MusicPlayer_init(g) == [guild |-> g, tasks |-> 1, loop |-> "live"]

\* The registry as one record; result is what get_player returns.
Reg == [players |-> players, instances |-> instances, result |-> 0]

\* A get_player that never looks the guild up.
get_player_always_creates(r, g) ==
    LET i == Len(r.instances) + 1
    IN  [r EXCEPT !.instances = Append(@, MusicPlayer_init(g)),
                  !.players[g] = i, !.result = i]

get_player(r, g) ==
    IF r.players[g] # 0
    THEN [r EXCEPT !.result = r.players[g]]
    ELSE LET i == Len(r.instances) + 1
         IN  [r EXCEPT !.instances = Append(@, MusicPlayer_init(g)),
                       !.players[g] = i, !.result = i]

\* The loop tasks of guild g that have not ended.
LiveLoops(g) ==
    {i \in DOMAIN instances : instances[i].guild = g /\ instances[i].loop = "live"}

-----------------------------------------------------------------------------
(* Two MusicPlayer objects side by side.  The deque and the two Events of   *)
(* a player are objects of their own, which the player references; heap     *)
(* holds their contents.  `current`, `voice` and the position of the loop   *)
(* are attributes of the player; the voice client belongs to the guild.     *)

\* A constructor that keeps `pending` in one deque shared by all players
\* (a class attribute).
new_player_shared_deque(h, g) ==
    LET n == Len(h)
    IN  [heap |-> h \o << <<>>, FALSE, FALSE >>,
         player |-> [pending |-> 1, queue_event |-> n + 2, next |-> n + 3,
                     current |-> NoTrack, voice |-> FALSE, connected |-> FALSE,
                     sinkState |-> "idle", sinkTrack |-> NoTrack,
                     wakeRequests |-> 0, pc |-> "start"]]

\* MusicPlayer.__init__ with the objects h constructed so far: a new deque,
\* two new Events, current = None, voice = None, the loop task created.
new_player(h, g) ==
    LET n == Len(h)
    IN  [heap |-> h \o << <<>>, FALSE, FALSE >>,
         player |-> [pending |-> n + 1, queue_event |-> n + 2, next |-> n + 3,
                     current |-> NoTrack, voice |-> FALSE, connected |-> FALSE,
                     sinkState |-> "idle", sinkTrack |-> NoTrack,
                     wakeRequests |-> 0, pc |-> "start"]]

\* The players of guilds 1..n, constructed one after the other.
RECURSIVE Construct(_)
Construct(n) ==
    IF n = 0 THEN [heap |-> <<>>, sessions |-> <<>>]
    ELSE LET c == Construct(n - 1)
             p == new_player(c.heap, n)
         IN  [heap |-> p.heap, sessions |-> Append(c.sessions, p.player)]

\* One player for every guild.
Constructed == Construct(MaxGuilds)

\* The state of guild g's player and voice client, as the engine's record.
Sess(g) ==
    LET e == sessions[g]
    IN  [pending |-> heap[e.pending], queue_event |-> heap[e.queue_event],
         next |-> heap[e.next], current |-> e.current, voice |-> e.voice,
         connected |-> e.connected, sinkState |-> e.sinkState,
         sinkTrack |-> e.sinkTrack, wakeRequests |-> e.wakeRequests,
         pc |-> e.pc, started |-> <<>>, track |-> NoTrack, ret |-> FALSE,
         events |-> <<>>, assigned |-> <<>>, played |-> <<>>]

\* The step of guild g's session that leaves it in state s.
Store(g, s) ==
    LET e == sessions[g]
    IN  /\ heap' = [heap EXCEPT ![e.pending] = s.pending,
                                ![e.queue_event] = s.queue_event,
                                ![e.next] = s.next]
        /\ sessions' = [sessions EXCEPT ![g] =
                [pending |-> e.pending, queue_event |-> e.queue_event,
                 next |-> e.next, current |-> s.current, voice |-> s.voice,
                 connected |-> s.connected, sinkState |-> s.sinkState,
                 sinkTrack |-> s.sinkTrack, wakeRequests |-> s.wakeRequests,
                 pc |-> s.pc]]
        /\ actor' = g

\* What a producer or the consumer of guild g can see of its engine:
\* `pending`, both signals, `current` and the transport reference.
View(g) ==
    [pending |-> heap[sessions[g].pending],
     queue_event |-> heap[sessions[g].queue_event],
     next |-> heap[sessions[g].next], current |-> sessions[g].current,
     voice |-> sessions[g].voice]

-----------------------------------------------------------------------------
Init ==
    /\ pending = <<>>
    /\ queue_event = FALSE
    /\ next = FALSE
    /\ current = NoTrack
    /\ voice = FALSE
    /\ connected = FALSE
    /\ sinkState = "idle"
    /\ sinkTrack = NoTrack
    /\ wakeRequests = 0
    /\ pc = "start"
    /\ nextId = 1
    /\ started = <<>>
    /\ skipNext = NoTrack
    /\ last = "init"
    /\ ret = FALSE
    /\ events = <<>>
    /\ assigned = <<>>
    /\ played = <<>>
    /\ req = "idle"
    /\ call = [cmd |-> "none", channel |-> FALSE, dj |-> FALSE]
    /\ snap = [own |-> TRUE, items |-> <<>>, size |-> 0]
    /\ resolved = [kind |-> "none", res |-> <<>>, out |-> NoOutcome]
    /\ cog = 1
    /\ cogs = 1
    /\ players = Music_init
    /\ instances = <<>>
    /\ returned = <<>>
    /\ heap = Constructed.heap
    /\ sessions = Constructed.sessions
    /\ issued = 0
    /\ actor = 0

(* Producers: command handlers running on the event loop. *)

AddTrack ==
    /\ nextId <= MaxTracks
    /\ Commit(add_track(St, nextId), "add")
    /\ nextId' = nextId + 1
    /\ UNCHANGED <<skipNext, handlerVars, cogVars>>

SkipCurrent ==
    LET r == skip_current(St)
    IN  /\ Commit(r, "skip")
        /\ skipNext' = IF r.ret /\ pending # <<>> THEN Head(pending) ELSE skipNext
        /\ UNCHANGED <<nextId, handlerVars, cogVars>>

ClearQueue ==
    /\ Commit(clear_queue(St), "clear")
    /\ UNCHANGED <<nextId, skipNext, handlerVars, cogVars>>

SetVoice ==
    /\ Commit(set_voice(St), "set_voice")
    /\ UNCHANGED <<nextId, skipNext, handlerVars, cogVars>>

(* The consumer task. *)

\* The task created in __init__ runs for the first time.
ConsumerStart ==
    /\ pc = "start"
    /\ \E ok \in BOOLEAN : Commit(loop_top(St, ok), "other")
    /\ UNCHANGED <<nextId, skipNext, handlerVars, cogVars>>

\* sleep(1) is over: `continue`.
ConsumerBackoffWake ==
    /\ pc = "backoff"
    /\ \E ok \in BOOLEAN : Commit(loop_top(St, ok), "other")
    /\ UNCHANGED <<nextId, skipNext, handlerVars, cogVars>>

\* queue_event was set while the consumer waited in _wait_for_track.  `next`
\* is not cleared on this path; when it is already set, next.wait() returns
\* at once and the loop goes round without suspending.  ended: the player's
\* thread has noticed the cleaned-up source before the following voice.play.
ConsumerTrackWake ==
    /\ pc = "wait_track"
    /\ queue_event
    /\ \E ok, ok2, ended \in BOOLEAN : \E res \in CleanupOutcomes :
          Commit(track_wake(St, ok, ok2, ended, res), "other")
    /\ UNCHANGED <<nextId, skipNext, handlerVars, cogVars>>

\* next was set while the consumer waited for the end of the playback.
ConsumerDone ==
    /\ pc = "wait_next"
    /\ next
    /\ \E ok \in BOOLEAN : \E res \in CleanupOutcomes :
          Commit(track_done(St, ok, res), "other")
    /\ UNCHANGED <<nextId, skipNext, handlerVars, cogVars>>

(* The voice client and its audio player. *)

\* The player's thread ends (source exhausted or failed) and runs after_play.
PlayerEnd ==
    /\ sinkState = "playing"
    /\ Commit(player_end(St), "other")
    /\ UNCHANGED <<nextId, skipNext, handlerVars, cogVars>>

\* The loop runs a posted `self.next.set`.
DeliverWake ==
    /\ wakeRequests > 0
    /\ Commit([St EXCEPT !.next = TRUE, !.wakeRequests = @ - 1], "other")
    /\ UNCHANGED <<nextId, skipNext, handlerVars, cogVars>>

\* voice.pause() of the pause command and button.
Pause ==
    /\ connected /\ is_playing(St)
    /\ Commit(voice_pause(St), "pause")
    /\ UNCHANGED <<nextId, skipNext, handlerVars, cogVars>>

\* voice.resume() of the resume command and button.
Resume ==
    /\ connected /\ is_paused(St)
    /\ Commit(voice_resume(St), "resume")
    /\ UNCHANGED <<nextId, skipNext, handlerVars, cogVars>>

\* voice.stop() of the stop command and button.
VoiceStop ==
    /\ connected /\ sinkState # "idle"
    /\ Commit(voice_stop(St), "other")
    /\ UNCHANGED <<nextId, skipNext, handlerVars, cogVars>>

\* The voice connection is established (channel.connect, or a reconnect).
Connect ==
    /\ ~connected
    /\ Commit([St EXCEPT !.connected = TRUE], "other")
    /\ UNCHANGED <<nextId, skipNext, handlerVars, cogVars>>

\* The voice connection goes away (voice.disconnect, or a drop); disconnect
\* stops the player.
Disconnect ==
    /\ connected
    /\ Commit([voice_stop(St) EXCEPT !.connected = FALSE], "other")
    /\ UNCHANGED <<nextId, skipNext, handlerVars, cogVars>>

\* The loop task is cancelled while suspended (loop_task.cancel(), or the
\* event loop cancelling every task when it shuts down).
Cancel ==
    /\ pc \in Suspensions
    /\ Commit(cancel(St), "cancel")
    /\ UNCHANGED <<nextId, skipNext, handlerVars, cogVars>>

Next ==
    \/ AddTrack
    \/ SkipCurrent
    \/ ClearQueue
    \/ SetVoice
    \/ ConsumerStart
    \/ ConsumerBackoffWake
    \/ ConsumerTrackWake
    \/ ConsumerDone
    \/ PlayerEnd
    \/ DeliverWake
    \/ Pause
    \/ Resume
    \/ VoiceStop
    \/ Connect
    \/ Disconnect

Spec == Init /\ [][Next]_vars

\* The runs in which clear_queue is never called.
NextNoClear ==
    \/ AddTrack
    \/ SkipCurrent
    \/ SetVoice
    \/ ConsumerStart
    \/ ConsumerBackoffWake
    \/ ConsumerTrackWake
    \/ ConsumerDone
    \/ PlayerEnd
    \/ DeliverWake
    \/ Pause
    \/ Resume
    \/ VoiceStop
    \/ Connect
    \/ Disconnect

NoClearSpec == Init /\ [][NextNoClear]_vars

(* The readers: the queue command, the web interface, the debug messages.  *)

\* What a caller reads in the list queue_items gave it last: the elements of
\* that list, or those of the deque if the list is the deque.
Listed == IF snap.own THEN snap.items ELSE pending

\* A caller calls queue_items and keeps the list.
QueueItems ==
    /\ LET l == queue_items_list(St)
       IN  snap' = [snap EXCEPT !.own = l.own, !.items = l.items]
    /\ Commit(St, "queue_items")
    /\ UNCHANGED <<nextId, skipNext, req, call, cogVars>>

\* A caller calls queue_size and keeps the number.
QueueSize ==
    /\ snap' = [snap EXCEPT !.size = queue_size(St)]
    /\ Commit(St, "queue_size")
    /\ UNCHANGED <<nextId, skipNext, req, call, cogVars>>

SnapshotNext ==
    \/ Next
    \/ QueueItems
    \/ QueueSize

SnapshotSpec == Init /\ [][SnapshotNext]_vars

(* Track resolution, as the play command and the song-request modal call it. *)

\* create_track is called; it reads the query and calls yt_dlp only.
CreateTrack ==
    /\ \E kind \in QueryKinds : \E res \in [1..2 -> Results] :
          resolved' = [kind |-> kind, res |-> res,
                       out |-> create_track(kind, res)]
    /\ UNCHANGED <<engineVars, handlerVars, regVars, isoVars>>

ResolveNext == CreateTrack

ResolveSpec == Init /\ [][ResolveNext]_vars

\* The event loop runs every task that is ready: a consumer whose sleep is
\* over, or whose event was set, is resumed.
FairSpec ==
    /\ Spec
    /\ WF_vars(ConsumerStart)
    /\ WF_vars(ConsumerBackoffWake)
    /\ WF_vars(ConsumerTrackWake)
    /\ WF_vars(ConsumerDone)

(* The command and button handlers of the cog. One handler is followed     *)
(* from its checks to its last message (req); `call` keeps what it was     *)
(* called with.                                                            *)

\* The checks of a handler: ch is what check_music_channel answers for the
\* channel of the command, dj what dj_allowed answers for its member. The
\* leave command tests the channel only; on_voice_state_update is no
\* member's command and tests neither.
checks_pass(cmd, ch, dj) ==
    CASE cmd = "leave" -> ch
      [] cmd = "voice_state" -> TRUE
      [] OTHER -> ch /\ dj

\* The play command or the song-request modal makes its checks; when they
\* pass it awaits its first message.
RequestBegin ==
    /\ req = "idle"
    /\ \E cmd \in {"play", "modal"} : \E ch, dj \in BOOLEAN :
          /\ call' = [cmd |-> cmd, channel |-> ch, dj |-> dj]
          /\ req' = IF checks_pass(cmd, ch, dj) THEN "ensure_voice" ELSE "idle"
    /\ Commit(St, "other")
    /\ UNCHANGED <<nextId, skipNext, snap, cogVars>>

\* ensure_voice: connects when the client is not connected, then set_voice;
\* ok = FALSE: channel.connect() or move_to raised and the handler returns.
RequestVoice ==
    /\ req = "ensure_voice"
    /\ \E ok \in BOOLEAN :
          IF ok
          THEN /\ Commit([set_voice(St) EXCEPT !.connected = TRUE], "set_voice")
               /\ req' = "create_track"
          ELSE /\ Commit(St, "other")
               /\ req' = "idle"
    /\ UNCHANGED <<nextId, skipNext, call, snap, cogVars>>

\* create_track raised.
RequestResolveFailed ==
    /\ req = "create_track"
    /\ Commit(resolve_failed(St), "resolve_failed")
    /\ req' = "idle"
    /\ UNCHANGED <<nextId, skipNext, call, snap, cogVars>>

\* create_track returned a track: add_track.
RequestResolved ==
    /\ req = "create_track"
    /\ nextId <= MaxTracks
    /\ Commit(add_track(St, nextId), "add")
    /\ nextId' = nextId + 1
    /\ req' = "idle"
    /\ UNCHANGED <<skipNext, call, snap, cogVars>>

RequestNext ==
    \/ Next
    \/ RequestBegin
    \/ RequestVoice
    \/ RequestResolveFailed
    \/ RequestResolved

RequestSpec == Init /\ [][RequestNext]_vars

\* The skip command or button: its checks, then skip_current; the messages
\* that follow touch nothing.
SkipCommand ==
    /\ req = "idle"
    /\ \E cmd \in {"skip", "skip_button"} : \E ch, dj \in BOOLEAN :
          /\ call' = [cmd |-> cmd, channel |-> ch, dj |-> dj]
          /\ IF checks_pass(cmd, ch, dj)
             THEN LET r == skip_current(St)
                  IN  /\ Commit(r, "skip")
                      /\ skipNext' = IF r.ret /\ pending # <<>>
                                     THEN Head(pending) ELSE skipNext
             ELSE /\ Commit(St, "other")
                  /\ UNCHANGED skipNext
    /\ UNCHANGED <<nextId, req, snap, cogVars>>

\* The stop command or button: its checks, then voice.stop(); with debug
\* messages enabled send_debug suspends the handler in channel.send before
\* clear_queue is called, otherwise send_debug returns without suspending and
\* clear_queue follows in the same step. Then the handler awaits its answer.
StopBegin ==
    /\ req = "idle"
    /\ \E cmd \in {"stop", "stop_button"} : \E ch, dj, debug \in BOOLEAN :
          /\ call' = [cmd |-> cmd, channel |-> ch, dj |-> dj]
          /\ IF ~checks_pass(cmd, ch, dj)
             THEN /\ Commit(St, "other")
                  /\ req' = "idle"
             ELSE IF debug
             THEN /\ Commit(voice_stop(St), "other")
                  /\ req' = "stop_debug"
             ELSE /\ Commit(clear_queue(voice_stop(St)), "stop_clear")
                  /\ req' = "stop_reply"
    /\ UNCHANGED <<nextId, skipNext, snap, cogVars>>

\* channel.send of the debug message returned: clear_queue.
StopClear ==
    /\ req = "stop_debug"
    /\ Commit(clear_queue(St), "stop_clear")
    /\ req' = "stop_reply"
    /\ UNCHANGED <<nextId, skipNext, call, snap, cogVars>>

\* The answer is sent: the handler has completed.
StopEnd ==
    /\ req = "stop_reply"
    /\ Commit(St, "stop_done")
    /\ req' = "idle"
    /\ UNCHANGED <<nextId, skipNext, call, snap, cogVars>>

\* The part of voice.disconnect() that runs before its first await: stop().
\* early: is_connected() is false from here on, not only at the end.
disconnect_begin(s, early) ==
    [voice_stop(s) EXCEPT !.connected = IF early THEN FALSE ELSE @]

\* voice.disconnect() has returned: the client is disconnected and cleaned
\* up, whatever it played is stopped.
disconnect_end(s) == [voice_stop(s) EXCEPT !.connected = FALSE]

\* A teardown that does not call clear_queue.
teardown_keeps_queue(s) == disconnect_end(s)

\* What a teardown handler does when voice.disconnect() has returned:
\* clear_queue, in the same step.
teardown(s) == clear_queue(disconnect_end(s))

\* The leave command or button: its checks; connected, it awaits
\* voice.disconnect().
LeaveBegin ==
    /\ req = "idle"
    /\ \E cmd \in {"leave", "leave_button"} : \E ch, dj, early \in BOOLEAN :
          /\ call' = [cmd |-> cmd, channel |-> ch, dj |-> dj]
          /\ IF checks_pass(cmd, ch, dj) /\ connected
             THEN /\ Commit(disconnect_begin(St, early), "other")
                  /\ req' = "disconnecting"
             ELSE /\ Commit(St, "other")
                  /\ req' = "idle"
    /\ UNCHANGED <<nextId, skipNext, snap, cogVars>>

\* on_voice_state_update finds the bot alone in the channel of player.voice:
\* it awaits voice.disconnect().
VoiceStateUpdate ==
    /\ req = "idle"
    /\ voice
    /\ \E early \in BOOLEAN :
          Commit(disconnect_begin(St, early), "other")
    /\ call' = [cmd |-> "voice_state", channel |-> FALSE, dj |-> FALSE]
    /\ req' = "disconnecting"
    /\ UNCHANGED <<nextId, skipNext, snap, cogVars>>

\* voice.disconnect() returned: clear_queue; on_voice_state_update has
\* completed, the leave handlers go on to send their answer.
TeardownEnd ==
    /\ req = "disconnecting"
    /\ Commit(teardown(St), "teardown")
    /\ req' = IF call.cmd = "voice_state" THEN "idle" ELSE "leave_reply"
    /\ UNCHANGED <<nextId, skipNext, call, snap, cogVars>>

\* The answer of the leave command or button is sent.
LeaveEnd ==
    /\ req = "leave_reply"
    /\ Commit(St, "other")
    /\ req' = "idle"
    /\ UNCHANGED <<nextId, skipNext, call, snap, cogVars>>

\* The runs of the stop handlers: tracks are enqueued once the transport is
\* bound and connected, which it stays; skip_current is not called; and
\* while a stop handler is in progress only the consumer and the player's
\* thread make steps. The consumer never finds the transport down in these
\* runs, so it never sleeps with a track held.
StopAddTrack == req = "idle" /\ TransportUp(St) /\ AddTrack

StopSetVoice == req = "idle" /\ ~voice /\ SetVoice

StopConnect == req = "idle" /\ Connect

StopPause == req = "idle" /\ Pause

StopResume == req = "idle" /\ Resume

StopNext ==
    \/ StopAddTrack
    \/ StopSetVoice
    \/ StopConnect
    \/ StopPause
    \/ StopResume
    \/ ConsumerStart
    \/ ConsumerTrackWake
    \/ ConsumerDone
    \/ PlayerEnd
    \/ DeliverWake
    \/ StopBegin
    \/ StopClear
    \/ StopEnd

StopSpec == Init /\ [][StopNext]_vars

\* The runs of the teardown handlers, with every other call and step going
\* on beside them; while voice.disconnect() is in progress the guild still
\* has its voice client and channel.connect() raises.
TeardownConnect == req # "disconnecting" /\ Connect

TeardownNext ==
    \/ AddTrack
    \/ SkipCurrent
    \/ ClearQueue
    \/ SetVoice
    \/ ConsumerStart
    \/ ConsumerBackoffWake
    \/ ConsumerTrackWake
    \/ ConsumerDone
    \/ PlayerEnd
    \/ DeliverWake
    \/ Pause
    \/ Resume
    \/ VoiceStop
    \/ TeardownConnect
    \/ Disconnect
    \/ LeaveBegin
    \/ VoiceStateUpdate
    \/ TeardownEnd
    \/ LeaveEnd

TeardownSpec == Init /\ [][TeardownNext]_vars

\* The runs in which the engine is called by the command and button
\* handlers only, one handler at a time.
CommandsNext ==
    \/ RequestBegin
    \/ RequestVoice
    \/ RequestResolveFailed
    \/ RequestResolved
    \/ SkipCommand
    \/ StopBegin
    \/ StopClear
    \/ StopEnd
    \/ LeaveBegin
    \/ VoiceStateUpdate
    \/ TeardownEnd
    \/ LeaveEnd
    \/ ConsumerStart
    \/ ConsumerBackoffWake
    \/ ConsumerTrackWake
    \/ ConsumerDone
    \/ PlayerEnd
    \/ DeliverWake
    \/ Connect
    \/ Disconnect

CommandsSpec == Init /\ [][CommandsNext]_vars


(* The registry and the extension management of the web interface.         *)

\* A command handler, a panel button or the web interface calls get_player.
GetPlayer ==
    /\ cog # 0
    /\ Len(returned) < MaxCalls
    /\ \E g \in Guilds :
          LET r == get_player(Reg, g)
          IN  /\ Len(r.instances) <= MaxPlayers
              /\ players' = r.players
              /\ instances' = r.instances
              /\ returned' = Append(returned, <<cog, g, r.result>>)
    /\ UNCHANGED <<cog, cogs, engineVars, handlerVars, ytVars, isoVars>>

\* handle_cogs_action "unload": the cog is removed; nothing stops its players.
Unload ==
    /\ cog # 0
    /\ cog' = 0
    /\ players' = Music_init
    /\ UNCHANGED <<cogs, instances, returned, engineVars, handlerVars, ytVars, isoVars>>

\* handle_cogs_action "load": setup() constructs a new Music.
Load ==
    /\ cog = 0
    /\ cogs < MaxCogs
    /\ cogs' = cogs + 1
    /\ cog' = cogs + 1
    /\ players' = Music_init
    /\ UNCHANGED <<instances, returned, engineVars, handlerVars, ytVars, isoVars>>

\* handle_cogs_action "reload": unload, then load.
Reload ==
    /\ cog # 0
    /\ cogs < MaxCogs
    /\ cogs' = cogs + 1
    /\ cog' = cogs + 1
    /\ players' = Music_init
    /\ UNCHANGED <<instances, returned, engineVars, handlerVars, ytVars, isoVars>>

\* The loop task of a player ends: an exception left player_loop, or the
\* task was cancelled.
LoopEnds ==
    /\ \E i \in DOMAIN instances :
          /\ instances[i].loop = "live"
          /\ instances' = [instances EXCEPT ![i].loop = "ended"]
    /\ UNCHANGED <<cog, cogs, players, returned, engineVars, handlerVars, ytVars, isoVars>>

RegistryNext ==
    \/ GetPlayer
    \/ Unload
    \/ Load
    \/ Reload
    \/ LoopEnds

RegistrySpec == Init /\ [][RegistryNext]_vars

(* The sessions of two guilds side by side: the same operations, each on   *)
(* the player of its guild.                                                 *)

SessionAddTrack ==
    /\ issued < MaxIsoTracks
    /\ \E g \in Guilds : Store(g, add_track(Sess(g), issued + 1))
    /\ issued' = issued + 1
    /\ UNCHANGED <<engineVars, handlerVars, ytVars, regVars>>

SessionSkipCurrent ==
    /\ \E g \in Guilds : Store(g, skip_current(Sess(g)))
    /\ UNCHANGED <<issued, engineVars, handlerVars, ytVars, regVars>>

SessionClearQueue ==
    /\ \E g \in Guilds : Store(g, clear_queue(Sess(g)))
    /\ UNCHANGED <<issued, engineVars, handlerVars, ytVars, regVars>>

SessionSetVoice ==
    /\ \E g \in Guilds : Store(g, set_voice(Sess(g)))
    /\ UNCHANGED <<issued, engineVars, handlerVars, ytVars, regVars>>

\* The loop task of a guild's player is resumed.  Only a consumer woken by
\* queue_event can go round twice, and only one that finishes a track runs
\* a cleanup.
SessionConsumer ==
    /\ \E g \in Guilds :
          LET s == Sess(g)
              twice == IF s.pc = "wait_track" THEN BOOLEAN ELSE {FALSE}
              outcomes == IF s.pc \in {"start", "backoff"}
                          THEN {"ok"} ELSE CleanupOutcomes
          IN  /\ CanResume(s)
              /\ \E ok \in BOOLEAN : \E ok2, ended \in twice :
                    \E res \in outcomes :
                       Store(g, resume(s, ok, ok2, ended, res))
    /\ UNCHANGED <<issued, engineVars, handlerVars, ytVars, regVars>>

SessionPlayerEnd ==
    /\ \E g \in Guilds :
          /\ sessions[g].sinkState = "playing"
          /\ Store(g, player_end(Sess(g)))
    /\ UNCHANGED <<issued, engineVars, handlerVars, ytVars, regVars>>

SessionDeliverWake ==
    /\ \E g \in Guilds :
          /\ sessions[g].wakeRequests > 0
          /\ Store(g, [Sess(g) EXCEPT !.next = TRUE, !.wakeRequests = @ - 1])
    /\ UNCHANGED <<issued, engineVars, handlerVars, ytVars, regVars>>

SessionConnect ==
    /\ \E g \in Guilds :
          /\ ~sessions[g].connected
          /\ Store(g, [Sess(g) EXCEPT !.connected = TRUE])
    /\ UNCHANGED <<issued, engineVars, handlerVars, ytVars, regVars>>

SessionsNext ==
    \/ SessionAddTrack
    \/ SessionSkipCurrent
    \/ SessionClearQueue
    \/ SessionSetVoice
    \/ SessionConsumer
    \/ SessionPlayerEnd
    \/ SessionDeliverWake
    \/ SessionConnect

SessionsSpec == Init /\ [][SessionsNext]_vars

\* The runs in which the loop task can be cancelled.
CancelNext == Next \/ Cancel

CancelSpec == Init /\ [][CancelNext]_vars

DrainAddTrack ==
    /\ TransportUp(St)
    /\ nextId <= MaxDrain
    /\ Commit(add_track(St, nextId), "add")
    /\ nextId' = nextId + 1
    /\ UNCHANGED <<skipNext, handlerVars, cogVars>>

DrainSetVoice == ~voice /\ SetVoice

DrainNext ==
    \/ DrainSetVoice
    \/ Connect
    \/ DrainAddTrack
    \/ ConsumerStart
    \/ ConsumerTrackWake
    \/ ConsumerDone
    \/ PlayerEnd
    \/ DeliverWake
    \/ Pause
    \/ Resume

DrainSpec == Init /\ [][DrainNext]_vars

-----------------------------------------------------------------------------
Range(q) == {q[i] : i \in DOMAIN q}

\* C1 (FIFO playback): when clear_queue is never called, the tracks that
\* became `current` are, in that order, the first tracks enqueued: the i-th
\* track to start is the track of the i-th add_track call, whatever the
\* interleaving of add_track calls, consumer steps and transport events.
C1_FifoPlayback == \A i \in DOMAIN started : started[i] = i

\* Three tracks have started, in the order of their add_track calls, and the
\* third one is streaming.
C1_Witness == started = <<1, 2, 3>> /\ current = 3 /\ Streaming(3)

\* C2 (hold on disconnect): a step taken while no connected transport is
\* bound, other than a clear_queue call, leaves queue_items() as it was, or,
\* when it is an add_track call, extends it by the new track at the tail;
\* queue_size() grows by exactly one per add_track call and never shrinks.
C2_HoldOnDisconnect ==
    [][(~TransportUp(St) /\ last' # "clear") =>
         IF last' = "add"
         THEN /\ queue_items(St)' = Append(queue_items(St), nextId)
              /\ queue_size(St)' = queue_size(St) + 1
         ELSE /\ queue_items(St)' = queue_items(St)
              /\ queue_size(St)' = queue_size(St)]_vars

\* The consumer sleeps in its backoff, holding all three tracks in order.
C2_Witness ==
    /\ pc = "backoff"
    /\ ~TransportUp(St)
    /\ queue_items(St) = <<1, 2, 3>>
    /\ started = <<>>

\* C3 (hold on disconnect, liveness): a track held at the head of `pending`
\* by a consumer in backoff, once a connected transport is bound, eventually
\* becomes `current` and has left `pending`, unless the transport goes away
\* again or clear_queue removes the track.
C3_HeldTrackPlays ==
    \A a \in Tracks :
        (pc = "backoff" /\ pending # <<>> /\ Head(pending) = a /\ TransportUp(St))
        ~> \/ current = a /\ a \notin Range(pending)
           \/ ~TransportUp(St)
           \/ last = "clear" /\ a \notin Range(pending)

\* set_voice has just bound a connected transport while a track is held.
C3_Witness ==
    /\ pc = "backoff"
    /\ pending # <<>>
    /\ last = "set_voice"
    /\ TransportUp(St)

\* C4 (skip scenario): skip_current called while A streams and B is the head
\* of `pending` stops A's playback; B is the next track to start; and the
\* consumer ends B (clears `current`) only when B's own playback has ended.
C4_SkipScenario ==
    [][/\ (last' = "skip" /\ ret') => sinkState' = "idle"
       /\ (/\ skipNext # NoTrack
           /\ skipNext \in Range(pending)
           /\ Len(started') > Len(started))
          => started'[Len(started) + 1] = skipNext
       /\ (skipNext # NoTrack /\ current = skipNext /\ current' # current)
          => ~Streaming(skipNext)]_vars

\* C5 (skip_current's result): skip_current returns true exactly when
\* `current` is set and streams on the bound voice client; when it returns
\* true the voice client was stopped and `next` is set.
C5_SkipReturn ==
    [][last' = "skip" =>
         /\ ret' <=> (current # NoTrack /\ voice /\ sinkTrack = current
                        /\ is_playing(St))
         /\ ret' => (next' /\ sinkState' = "idle")]_vars

\* What the engine and the voice client hold, `pending` apart.
NotPending ==
    <<queue_event, next, current, voice, connected, sinkState, sinkTrack,
      wakeRequests, pc>>

\* C6 (skip when idle): with no voice client bound, or a bound one that is
\* not playing, skip_current returns false and changes nothing.
C6_SkipIdleNoOp ==
    [][(last' = "skip" /\ ~(voice /\ is_playing(St))) =>
         (~ret' /\ UNCHANGED <<pending, NotPending>>)]_vars

\* skip_current returned false with a track current (paused) and one pending.
C6_Witness ==
    /\ last = "skip"
    /\ ~ret
    /\ current # NoTrack
    /\ pending # <<>>
    /\ sinkState = "paused"

\* C7 (skip_current and pending): skip_current leaves `pending` as it was,
\* whatever it returns.
C7_SkipKeepsPending == [][last' = "skip" => pending' = pending]_vars

\* skip_current returned true with two tracks pending.
C7_Witness == last = "skip" /\ ret /\ Len(pending) = 2

C9_ClearAtomic ==
    /\ last = "clear" => pending = <<>>
    /\ last = "add" => (pending # <<>> /\ pending[Len(pending)] = nextId - 1)

\* A track enqueued after a clear that removed two others.
C9_Witness == last = "add" /\ pending = <<3>> /\ started = <<>>

\* C10 (add_track): in every state add_track can run; it extends `pending`
\* by its track at the tail, sets queue_event and changes neither `current`
\* nor `next`.
C10_AddTrack ==
    /\ [](nextId <= MaxTracks => ENABLED AddTrack)
    /\ [][last' = "add" =>
            /\ pending' = Append(pending, nextId)
            /\ queue_event'
            /\ current' = current
            /\ next' = next]_vars

\* add_track ran after player_loop had terminated, on a queue of one.
C10_Witness ==
    /\ last = "add"
    /\ pc = "dead"
    /\ Len(pending) = 2
    /\ queue_event

\* In a drain run every track that starts takes exactly one element off the
\* queue: queue_size goes n, n-1, ..., 0.
QueueSizeSteps ==
    [][last' # "add" =>
          queue_size(St)' + Len(started') = queue_size(St) + Len(started)]_vars

\* C11 (drain to WAITING): in a drain run queue_size decreases by exactly one
\* each time a track starts, and when every enqueued track was added and
\* every playback has ended, so that nothing is left to happen, the consumer
\* is suspended on queue_event with `current` and `pending` empty.
C11_DrainToWaiting ==
    /\ QueueSizeSteps
    /\ [](~ENABLED DrainNext =>
            pc = "wait_track" /\ current = NoTrack /\ pending = <<>>)

\* C12 (output-start failure is recoverable): a step in which creating the
\* source or voice.play failed for a track leaves the consumer loop alive and
\* that track no longer `current`.
C12_StartFailureRecoverable ==
    \A i \in DOMAIN events :
        events[i][1] = "start_failed" => pc # "dead" /\ current # events[i][2]

\* C13 (cleanup failure is benign): a step in which source.cleanup() raised
\* for a track leaves that track no longer `current`, and the loop went on:
\* it reported the next iteration's queue_wait, or suspended on queue_event.
C13_CleanupFailureBenign ==
    \A i \in DOMAIN events :
        events[i][1] = "cleanup_failed" =>
            /\ current # events[i][2]
            /\ \/ pc = "wait_track" /\ current = NoTrack
               \/ i < Len(events) /\ events[i + 1][1] = "music.queue_wait"

\* The cleanup of track 1 failed and track 2 is playing.
C13_Witness ==
    /\ Len(events) >= 2
    /\ events[2] = <<"cleanup_failed", 1>>
    /\ current = 2
    /\ Streaming(2)
    /\ pc = "wait_next"

\* C14 (cancellation terminates the consumer): the loop task can be cancelled
\* at each of its three suspension points; the cancellation ends the loop
\* normally (not as an error) without another dequeue, play request or
\* report, and a consumer that was cancelled does none of these later.
C14_CancelTerminates ==
    /\ [](pc \in Suspensions => ENABLED Cancel)
    /\ [][last' = "cancel" =>
            /\ pc' = "cancelled"
            /\ events' = <<>>
            /\ UNCHANGED <<pending, current, started, sinkState, sinkTrack>>]_vars
    /\ [][pc = "cancelled" =>
            /\ pc' = "cancelled"
            /\ events' = <<>>
            /\ started' = started
            /\ current' = current
            /\ last' \notin {"add", "clear"} => pending' = pending]_vars

\* Cancelled during the backoff sleep with a track held, the transport up
\* again since: the track stays in `pending`.
C14_Witness ==
    /\ pc = "cancelled"
    /\ pending # <<>>
    /\ TransportUp(St)
    /\ started = <<>>
    /\ last = "other"

\* C15 (cancellation releases output resources): a cancellation that reaches
\* the consumer while it waits for the end of a playback makes it attempt
\* the cleanup of that track's source.
C15_CancelReleases ==
    [][(last' = "cancel" /\ pc = "wait_next") =>
          \E i \in DOMAIN events' :
              /\ events'[i][1] \in {"cleanup", "cleanup_failed"}
              /\ events'[i][2] = current]_vars

\* C19 (producers never see consumer-side failures): in every state of the
\* engine, the consumer waiting, playing, in backoff or terminated by an
\* exception or a cancellation, add_track, skip_current and clear_queue can
\* be called and complete with their own effect and result, whatever
\* happened in the loop, and they leave the consumer where it is.
C19_ProducersUnaffected ==
    /\ [](/\ ENABLED SkipCurrent
          /\ ENABLED ClearQueue
          /\ nextId <= MaxTracks => ENABLED AddTrack)
    /\ [][/\ last' \in {"add", "skip", "clear"} => pc' = pc
          /\ last' = "add" =>
                pending' = Append(pending, nextId) /\ queue_event'
          /\ last' = "clear" => pending' = <<>>
          /\ last' = "skip" =>
                /\ pending' = pending
                /\ ret' = (voice /\ sinkState = "playing")]_vars

\* skip_current stopped a track after the consumer was ended by an exception.
C19_Witness ==
    /\ pc = "dead"
    /\ last = "skip"
    /\ ret

\* C20 (resolution failure leaves the queue untouched): the step in which a
\* play command or song-request modal finds that create_track failed ends
\* the request without add_track: `pending`, `current` and the rest of the
\* engine are as they were, and no track number is used up.
C20_ResolveFailureKeepsQueue ==
    [][last' = "resolve_failed" =>
          /\ req' = "idle"
          /\ UNCHANGED <<pending, current, queue_event, next, nextId>>]_vars

\* A request failed to resolve while track 1 plays and track 2 waits.
C20_Witness ==
    /\ last = "resolve_failed"
    /\ current = 1
    /\ Streaming(1)
    /\ pending = <<2>>

\* C16 (get_player is idempotent): of the get_player calls made on one Music
\* object, two with the same guild returned the same MusicPlayer; calls with
\* different guilds returned different MusicPlayers; and every MusicPlayer
\* had its loop task created exactly once.
C16_GetPlayerIdempotent ==
    /\ \A m, n \in DOMAIN returned :
          LET a == returned[m]
              b == returned[n]
          IN  /\ (a[1] = b[1] /\ a[2] = b[2]) => a[3] = b[3]
              /\ a[2] # b[2] => a[3] # b[3]
    /\ \A i \in DOMAIN instances : instances[i].tasks = 1

\* get_player was called twice for guild 1, then twice for guild 2.
C16_Witness ==
    /\ Len(instances) = 2
    /\ returned = <<<<1, 1, 1>>, <<1, 1, 1>>, <<1, 2, 2>>, <<1, 2, 2>>>>

\* C17 (one engine per session for the process lifetime): no guild has more
\* than one consumer loop alive, whatever was unloaded, loaded or reloaded.
C17_OneLoopPerGuild == \A g \in Guilds : Cardinality(LiveLoops(g)) <= 1

\* C18 (session isolation): a step of one guild's session, producer call or
\* consumer step, leaves `pending`, `current`, both signals and the
\* transport reference of every other guild's session unchanged.
C18_SessionIsolation ==
    [][\A g \in Guilds : g # actor' => View(g)' = View(g)]_vars

\* Guild 2's consumer started a track while guild 1 holds a track in
\* backoff.
C18_Witness ==
    /\ actor = 2
    /\ sessions[2].current = 2
    /\ sessions[2].pc = "wait_next"
    /\ View(1).pending = <<1>>
    /\ sessions[1].pc = "backoff"

\* C24 (set_voice only replaces the transport reference): a set_voice call
\* binds the voice client and changes nothing else: `pending`, `current`,
\* both signals, the client's player and the consumer stay as they are; and
\* a consumer that comes back from its backoff with the client bound and
\* connected starts the track it dequeues.
C24_SetVoiceOnlyBinds ==
    /\ [][last' = "set_voice" =>
            /\ voice'
            /\ UNCHANGED <<pending, current, queue_event, next, connected,
                           sinkState, sinkTrack, wakeRequests, pc>>]_vars
    /\ [][(pc = "backoff" /\ voice /\ connected /\ events' # <<>>) =>
            /\ Len(started') = Len(started) + 1
            /\ started'[Len(started')] = Head(pending)]_vars

\* set_voice was called while track 1 is playing and track 2 waits.
C24_Witness ==
    /\ last = "set_voice"
    /\ current = 1
    /\ sinkTrack = 1
    /\ sinkState = "playing"
    /\ pending = <<2>>

\* A pause or resume changes the state of the client's player and nothing
\* else: neither `pending` nor `current` nor a signal nor a posted completion.
PauseResumeFrame ==
    [][last' \in {"pause", "resume"} =>
          /\ sinkState' = (IF last' = "pause" THEN "paused" ELSE "playing")
          /\ UNCHANGED <<pending, current, queue_event, next, voice,
                         connected, sinkTrack, wakeRequests, pc>>]_vars

\* C25 (pause and resume act only on the Output Sink): a pause or resume
\* changes the player's state and nothing else; and while the current track
\* is paused the consumer does not leave its wait on `next`.
C25_PauseResumeOnlySink ==
    /\ PauseResumeFrame
    /\ [][(pc = "wait_next" /\ sinkState = "paused" /\ sinkTrack = current) =>
            (pc' = "wait_next" /\ current' = current)]_vars

\* The tracks that became `current` and are not `current` any more.
Finished ==
    IF current # NoTrack THEN SubSeq(started, 1, Len(started) - 1) ELSE started

\* C26 (telemetry per track): the tracks with a music.track_play report are
\* exactly the tracks the consumer finished, once each and in that order, so
\* a track held in backoff has none; the report is made while the track is
\* still `current`; and the music.queue_wait report of the iteration comes
\* first: it is made in the step that makes the track `current`, before the
\* track_play report when both fall into one step.
C26_TelemetryPerTrack ==
    /\ [](/\ played = Finished
          /\ \A i \in DOMAIN events :
                events[i][1] = "music.track_play" => events[i][2] # NoTrack)
    /\ [][/\ Len(started') > Len(started) =>
                \E j \in DOMAIN events' : events'[j][1] = "music.queue_wait"
          /\ \A i \in DOMAIN events' :
                events'[i][1] = "music.track_play" =>
                    \/ events'[i][2] = current
                    \/ \E j \in 1..(i - 1) :
                          events'[j][1] = "music.queue_wait"]_vars

\* Tracks 1 and 2 were played and reported; track 3 is held in backoff.
C26_Witness ==
    /\ played = <<1, 2>>
    /\ pc = "backoff"
    /\ pending = <<3>>
    /\ events = <<<<"music.track_play", 2>>, <<"cleanup", 2>>,
                  <<"music.queue_wait", 0>>>>

\* C28 (single current): `current` is one track or empty, and every
\* assignment to it goes from empty to a track, which the same step dequeued
\* with the transport connected, or from a track to empty, after the report
\* of that track's completion; no assignment replaces a track by another.
C28_SingleCurrent ==
    /\ [](current \in Tracks \cup {NoTrack})
    /\ [][LET seq == <<current>> \o assigned'
          IN  /\ current' = seq[Len(seq)]
              /\ \A i \in 1..(Len(seq) - 1) :
                    \/ /\ seq[i] = NoTrack
                       /\ seq[i + 1] \in Range(started') \ Range(started)
                       /\ voice /\ connected
                    \/ /\ seq[i] # NoTrack
                       /\ seq[i + 1] = NoTrack
                       /\ seq[i] \in Range(played') \ Range(played)]_vars

\* One step of the consumer cleared `current` from track 1 and set it to
\* track 2.
C28_Witness ==
    /\ assigned = <<NoTrack, 2>>
    /\ current = 2
    /\ played = <<1>>

\* C29 (completion is attributed to the right track): when the consumer's
\* wait on `next` returns for a track and the consumer reports it as played,
\* that track was `current` and its playback has ended: the voice client is
\* not streaming it any more.
C29_CompletionOfOwnTrack ==
    [][\A i \in DOMAIN events' :
          events'[i][1] = "music.track_play" =>
              /\ events'[i][2] = current
              /\ ~Streaming(current)]_vars

\* C30 (single output stream): whenever the voice client streams a track,
\* that track is `current`; and the consumer starts a track only when the
\* client is not streaming one.
C30_SingleOutputStream ==
    /\ [](sinkState # "idle" => current = sinkTrack)
    /\ [][Len(started') > Len(started) => sinkState = "idle"]_vars

\* C27 (read-only snapshots): queue_items returns a list equal to `pending`
\* at the call and queue_size returns its length; neither call changes the
\* state of the engine or of the voice client; and whatever the engine does
\* afterwards, the caller keeps reading the same elements in the list it got.
C27_Snapshots ==
    /\ [][last' = "queue_items" =>
             /\ Listed' = pending
             /\ UNCHANGED <<pending, queue_event, next, current, voice,
                            connected, sinkState, sinkTrack, wakeRequests, pc,
                            started, played>>]_vars
    /\ [][last' = "queue_size" =>
             /\ snap'.size = Len(pending)
             /\ UNCHANGED <<pending, queue_event, next, current, voice,
                            connected, sinkState, sinkTrack, wakeRequests, pc,
                            started, played>>]_vars
    /\ [][last' # "queue_items" => Listed' = Listed]_vars

\* A list of two tracks was returned, and the engine has since played one of
\* its tracks and the queue was cleared.
C27_Witness ==
    /\ Listed = <<2, 3>>
    /\ snap.size = 2
    /\ pending = <<>>
    /\ last = "clear"
    /\ played = <<1>>

\* C23 (stop postcondition): when the stop command or button has completed,
\* `pending` is empty and the voice client streams no track, whatever steps
\* the consumer and the player's thread made while the handler was suspended.
C23_StopPostcondition ==
    [][last' = "stop_done" => (pending' = <<>> /\ sinkState' = "idle")]_vars

C21_AuthorizedMutation ==
    [][last' \in {"add", "skip", "stop_clear", "teardown"} =>
          \/ call'.cmd = "voice_state"
          \/ call'.channel /\ call'.dj]_vars

\* C31 (consumer lifetime): whatever is enqueued, skipped, stopped, cleared,
\* bound or played, the loop task of a registered player has not ended.
C31_LoopAlive == pc # "dead"

\* C32 (`current` between dequeue and completion): `current` holds a track
\* exactly when the consumer has popped a track with the transport bound and
\* connected and has not yet handled a done signal for it, and it is then
\* that track; while the consumer has not run, waits for a track or sleeps
\* in the backoff, `current` is empty.
C32_CurrentWindow ==
    /\ (current # NoTrack) <=> (Len(started) > Len(played))
    /\ current # NoTrack =>
          /\ current = started[Len(started)]
          /\ pc \notin {"start", "wait_track", "backoff"}
    /\ pc = "wait_next" => current # NoTrack

\* Track 2 is current and streaming after track 1 was finished.
C32_Witness ==
    /\ pc = "wait_next"
    /\ current = 2
    /\ Streaming(2)
    /\ started = <<1, 2>>
    /\ played = <<1>>

\* C33 (`current` is not queued): the track `current` refers to is not an
\* element of `pending`; a track is the object one add_track call enqueued.
C33_CurrentNotPending ==
    current # NoTrack => current \notin Range(pending)

\* Track 1 is current and streaming, the later tracks are queued behind it.
C33_Witness ==
    /\ current = 1
    /\ pending = <<2, 3>>
    /\ Streaming(1)
    /\ pc = "wait_next"

\* The tracks the engine holds: the elements of `pending` and `current`.
Held == Range(pending) \cup ({current} \ {NoTrack})

\* C34 (no track in limbo): between two steps the consumer is at one of its
\* three suspension points (or has not run yet, or has ended), and every
\* track that was enqueued and was neither cleared nor finished is an element
\* of `pending` or is `current`: a step that is not a clear_queue call keeps
\* every held track held or reports it as played, and add_track makes its
\* track held.
C34_NoLimbo ==
    /\ [](pc \in Suspensions \cup {"start", "dead"})
    /\ [](Held \cup Range(played) \subseteq 1..(nextId - 1))
    /\ [][last' # "clear" => Held \subseteq (Held' \cup Range(played'))]_vars
    /\ [][last' = "add" => nextId \in Held']_vars
    /\ [][Held' \subseteq Held \cup {nextId}]_vars

\* The consumer sleeps in the backoff with track 1 pushed back to the head,
\* where a producer sees it, and track 2 behind it.
C34_Witness ==
    /\ pc = "backoff"
    /\ pending = <<1, 2>>
    /\ current = NoTrack
    /\ started = <<>>
    /\ events = <<<<"music.queue_wait", 1>>>>

\* C35 (nothing is played without a transport): a track becomes `current`
\* only in a step made with the transport bound and connected; an iteration
\* that finds no transport, or a transport that is not connected, assigns no
\* track to `current`, leaves the voice client's player and the queue as
\* they are and ends in the backoff sleep; and the step after the sleep
\* starts at the top of the loop: it clears `next` and waits for a track.
C35_NoPlayWithoutTransport ==
    /\ [][Len(started') > Len(started) => (voice /\ connected)]_vars
    /\ [][(~(voice /\ connected)
            /\ \E i \in DOMAIN events' : events'[i][1] = "music.queue_wait") =>
             /\ pc' = "backoff"
             /\ \A i \in DOMAIN assigned' : assigned'[i] = NoTrack
             /\ current' = NoTrack
             /\ UNCHANGED <<sinkState, sinkTrack, started, pending>>]_vars
    /\ [][(pc = "backoff" /\ (events' # <<>> \/ pc' # pc)) =>
             /\ ~next'
             /\ IF pending # <<>>
                THEN events'[1] = <<"music.queue_wait", Len(pending) - 1>>
                ELSE pc' = "wait_track" /\ ~queue_event' /\ events' = <<>>]_vars

\* The consumer sleeps in the backoff with track 1 back at the head: the
\* client is bound but not connected, nothing was started.
C35_Witness ==
    /\ pc = "backoff"
    /\ voice /\ ~connected
    /\ pending = <<1, 2>>
    /\ current = NoTrack
    /\ sinkState = "idle"
    /\ started = <<>>
    /\ ~next
    /\ events = <<<<"music.queue_wait", 1>>>>

\* C36 (no lost wake-up): whenever the consumer is suspended on the wake
\* signal and `pending` is not empty, the signal is set, so the consumer can
\* run, and when it runs it dequeues a track; under fair scheduling of the
\* consumer it does leave the wait (unless clear_queue empties the queue
\* first).  And a consumer that finishes a track while `pending` is not
\* empty dequeues the head in the same step, without a further add_track.
C36_NoLostWakeup ==
    /\ []((pc = "wait_track" /\ pending # <<>>) => queue_event)
    /\ [][(pc = "wait_track" /\ pending # <<>> /\ (pc' # pc \/ events' # <<>>)) =>
             (events' # <<>> /\ events'[1] = <<"music.queue_wait", Len(pending) - 1>>)]_vars
    /\ [][(pc = "wait_next" /\ Len(played') > Len(played) /\ pending # <<>>) =>
             \E i \in DOMAIN events' :
                events'[i] = <<"music.queue_wait", Len(pending) - 1>>]_vars
    /\ (pc = "wait_track" /\ pending # <<>>) ~> (pc # "wait_track" \/ pending = <<>>)

\* add_track was called while the consumer waits for a track: the signal is
\* set and the track is queued.
C36_Witness ==
    /\ pc = "wait_track"
    /\ last = "add"
    /\ pending = <<2>>
    /\ queue_event
    /\ played = <<1>>

\* C37 (completion hand-off): `next` is set only by skip_current, which runs
\* on the event loop, or by the event loop running a next.set that was
\* posted to it; the step in which a playback ends (in the player's thread)
\* posts one such request and does not set `next`.
C37_HandOff ==
    /\ [][(~next /\ next') =>
             \/ last' = "skip"
             \/ wakeRequests' = wakeRequests - 1]_vars
    /\ [][(sinkState # "idle" /\ sinkState' = "idle") =>
             wakeRequests' = wakeRequests + 1]_vars
    /\ [][(wakeRequests' > wakeRequests /\ last' # "skip") => (next' => next)]_vars

\* Track 1 has ended by itself: its request is posted and not yet run, the
\* consumer still waits for `next`.
C37_Witness ==
    /\ wakeRequests = 1
    /\ ~next
    /\ pc = "wait_next"
    /\ current = 1
    /\ sinkState = "idle"
    /\ skipNext = NoTrack
    /\ last = "other"
    /\ connected

\* A lookup that gives something to build a Track from: a dict with "url"
\* and no entries, or a dict with a non-empty entry.
Usable(r) ==
    /\ r.kind = "dict"
    /\ IF r.entries = <<>> THEN r.url ELSE first_entry(r.entries) # 0

\* C38 (track resolution): create_track returns a Track with a stream
\* locator or raises an error; the Track is built from the result itself or
\* from the first non-empty entry of its `entries`; and for a query that is
\* neither a locator nor prefixed, an error is raised only after the search
\* term "ytsearch:<query>" was tried, whenever the first lookup raised or
\* gave nothing usable.
C38_Resolution ==
    resolved.kind # "none" =>
        LET o == resolved.out
            r == resolved.res
        IN  /\ o.result \in {"track", "error"}
            /\ o.result = "track" =>
                  /\ o.term \in DOMAIN o.tried
                  /\ IF o.entry = 0
                     THEN r[o.term].url
                     ELSE /\ o.entry = first_entry(r[o.term].entries)
                          /\ r[o.term].entries[o.entry] = "url"
            /\ (resolved.kind = "text" /\ o.result = "error" /\ ~Usable(r[1])) =>
                  o.tried = <<"query", "ytsearch">>

\* C39 (no dequeue from an empty queue): the consumer pops only tracks that
\* are in `pending`: a step reports no more dequeues than `pending` has
\* elements, and a track it starts was in `pending`; a consumer that runs
\* while `pending` is empty (at its first run, after the backoff, or woken by
\* a wake signal that is still set) clears the signal and suspends on it,
\* having popped, reported and started nothing.
C39_NoPopFromEmpty ==
    /\ [][Cardinality({i \in DOMAIN events' : events'[i][1] = "music.queue_wait"})
             <= Len(pending)]_vars
    /\ [][\A i \in DOMAIN started' :
             i > Len(started) => started'[i] \in Range(pending)]_vars
    /\ [][(pc \in {"start", "backoff", "wait_track"} /\ pending = <<>>
            /\ (pc' # pc \/ queue_event' # queue_event \/ events' # <<>>)
            /\ last' # "add") =>
             /\ pc' = "wait_track"
             /\ ~queue_event'
             /\ events' = <<>>
             /\ UNCHANGED <<pending, current, started, sinkState, sinkTrack>>]_vars

\* Track 1 was enqueued and cleared; the consumer has since used up the wake
\* signal of that add_track and waits again.
C39_Witness ==
    /\ pc = "wait_track"
    /\ ~queue_event
    /\ pending = <<>>
    /\ nextId = 2
    /\ started = <<>>
    /\ last = "other"
    /\ events = <<>>

\* skip_current called while the player is paused: it returns False and
\* changes nothing.
SkipPausedFrame ==
    [][(last' = "skip" /\ sinkState = "paused") =>
          /\ ~ret'
          /\ UNCHANGED <<sinkState, sinkTrack, next, wakeRequests, current,
                         pending, queue_event, pc>>]_vars

\* C40 (a paused track cannot be skipped): skip_current called while the
\* current track is paused returns False, does not stop the player and does
\* not set `next`; and as long as the player stays paused on the current
\* track, `current` stays set to it.
C40_PausedNotSkipped ==
    /\ SkipPausedFrame
    /\ [][(Streaming(current) /\ sinkState = "paused"
            /\ sinkState' = "paused" /\ sinkTrack' = sinkTrack) =>
             current' = current]_vars

====
